---- MODULE Spec2Model ----
(***************************************************************************)
(* Model of the train-schedule-bot: the scheduler process (scheduler.py)   *)
(* that reconciles the jobs of an APScheduler instance against the         *)
(* user_data table of bot_data.db, and the bot process's persistence       *)
(* layer (sqlite_persistence.py) that writes that table; the dispatcher     *)
(* send_schedule_notification with the schedule lookup                     *)
(* (national_rail_api.py); and the station commands of bot.py.             *)
(*                                                                         *)
(* Strings that the code inspects character by character (job ids) are     *)
(* sequences of one-character strings.  A stored time of day "hh:mm xM" is *)
(* the lexed triple <<hh, mm, "xM">>; anything strptime would reject is a  *)
(* triple outside the accepted ranges.                                     *)
(***************************************************************************)
EXTENDS Integers, Sequences, FiniteSets, TLC

VARIABLES
    env,              \* os.getenv: which credentials are present, who is authorized
    conn,             \* user_data as seen through the bot's connection (uncommitted included)
    db,               \* user_data as committed in bot_data.db
    nwrites,          \* number of update_/drop_user_data calls so far
    jobs,             \* the AsyncIOScheduler's job store
    started,          \* scheduler.start() has been called
    mainpc,           \* position of scheduler.main()
    pass_pc,          \* position of resync_all_user_schedules
    instances,        \* number of resync_all_user_schedules coroutines in progress
    users,            \* its local: the rows returned by get_all_user_data
    current_job_ids,  \* its local: the ids scheduled by the pass
    scan_error,       \* history: the last scan hit sqlite3.Error
    same_scan,        \* history: the last scan returned the rows of the pass before it
    prior,            \* history: the job store when the last pass body began
    passes,           \* history: a pass has run to its end
    dispatches,       \* the send_schedule_notification coroutines started so far
                      \* (job_live is history: the job was in the store at the
                      \* coroutine's latest step)
    nfires,           \* number of cron triggers that have fired so far
    now,              \* the clock, counted in trigger moments
    next_run_time,    \* the scheduler's next run time of each job in the store
    lost,             \* what the job store held when the process last stopped
    restarts,         \* number of times the process has been stopped
    missed,           \* history: moments of jobs that passed while the process was down
    fired,            \* history: the run times the executor has fired, and when
    in_conn,          \* the storage operations running in a thread on self.conn
    context_user_data,  \* the bot's context.user_data of each user
    reply_text,       \* the text of the bot's last reply_text
    last_command,     \* history: the last command handled, its sender and arguments
    before,           \* history: user_data when that command arrived
    lookup            \* history: the last call of fetch_train_schedule and its result

vars == <<env, conn, db, nwrites, jobs, started, mainpc, pass_pc, instances, users,
          current_job_ids, scan_error, same_scan, prior, passes,
          dispatches, nfires, now, next_run_time, lost, restarts, missed, fired,
          in_conn, context_user_data, reply_text, last_command, before, lookup>>

\* What the registry and the scheduler's scan leave alone.
outside_vars == <<dispatches, nfires, now, next_run_time, lost, restarts, missed, fired,
                  in_conn, context_user_data, reply_text, last_command, before, lookup>>

bot_vars == <<in_conn, context_user_data, reply_text, last_command, before, lookup>>

clock_vars == <<now, next_run_time, lost, restarts, missed, fired>>

----------------------------------------------------------------------------
\* Bounds of the model.

MaxWrites == 2

MaxFires == 1

MaxTicks == 2

MaxRestarts == 1

MaxThreads == 2

MaxDispatches == 2

UserIds == {1, 12}

RESYNC_INTERVAL_MINUTES == 5

----------------------------------------------------------------------------
\* Strings.

DigitChars == <<"0", "1", "2", "3", "4", "5", "6", "7", "8", "9">>

RECURSIVE Str(_)
Str(n) ==
    IF n < 0 THEN <<"-">> \o Str(0 - n)
    ELSE IF n < 10 THEN <<DigitChars[n + 1]>>
    ELSE Str(n \div 10) \o <<DigitChars[(n % 10) + 1]>>

Chars(word) ==
    CASE word = "to_slot"    -> <<"t", "o", "_", "s", "l", "o", "t">>
      [] word = "from_slot"  -> <<"f", "r", "o", "m", "_", "s", "l", "o", "t">>
      [] word = "resync_job" -> <<"r", "e", "s", "y", "n", "c", "_", "j", "o", "b">>

startswith(s, prefix) ==
    /\ Len(prefix) <= Len(s)
    /\ SubSeq(s, 1, Len(prefix)) = prefix

\* f"{user_id}_{slot_type}_{n}"
JobId(user_id, slot_type, n) ==
    Str(user_id) \o <<"_">> \o Chars(slot_type) \o <<"_">> \o Str(n)

\* f"{user_id}_"
UserPrefix(user_id) == Str(user_id) \o <<"_">>

----------------------------------------------------------------------------
\* The rows of user_data: user_id INTEGER PRIMARY KEY, data TEXT.

json_dumps(doc) == [ok |-> TRUE, doc |-> doc]

MalformedJson == [ok |-> FALSE]

EmptyTable == [u \in {} |-> MalformedJson]

InsertOrReplace(table, user_id, data) ==
    [u \in DOMAIN table \cup {user_id} |-> IF u = user_id THEN data ELSE table[u]]

DeleteRow(table, user_id) ==
    [u \in DOMAIN table \ {user_id} |-> table[u]]

\* SELECT user_id, data FROM user_data: a scan of the table in rowid order.
RECURSIVE fetchall(_)
fetchall(table) ==
    IF DOMAIN table = {} THEN <<>>
    ELSE LET first == CHOOSE u \in DOMAIN table : \A v \in DOMAIN table : u <= v
         IN <<(<<first, table[first]>>)>> \o fetchall(DeleteRow(table, first))

----------------------------------------------------------------------------
\* The job store.

CronJob(id, hour, minute, args) ==
    [id |-> id, func |-> "send_schedule_notification", args |-> args,
     trigger |-> [type |-> "cron", day_of_week |-> "mon-fri",
                  hour |-> hour, minute |-> minute]]

ResyncJob ==
    [id |-> Chars("resync_job"), func |-> "resync_all_user_schedules", args |-> <<>>,
     trigger |-> [type |-> "interval", minutes |-> RESYNC_INTERVAL_MINUTES]]

\* add_job that keeps the job already stored under the id.
add_job_keeping(store, job) == store \cup {job}

\* scheduler.add_job(..., id=job.id, replace_existing=True)
add_job(store, job) == {j \in store : j.id # job.id} \cup {job}

\* A job added before scheduler.start() has no run time until the start.
Pending == 0 - 1

NoRunTimes == [id \in {} |-> Pending]

\* A job store that outlives the process.
AsyncIOSchedulerPersistent(previous) == previous

\* AsyncIOScheduler(): the default job store is in memory and starts empty,
\* whatever the store of an earlier process held.
AsyncIOScheduler(previous) == [jobs |-> {}, next_run_time |-> NoRunTimes]

\* An executor that starts an instance whatever is running.
InstanceFreeAlways(running) == TRUE

\* The executor starts an instance of a job only while fewer than
\* max_instances (by default one) of it are running.
InstanceFree(running) == running < 1

JobIds(store) == {j.id : j \in store}

----------------------------------------------------------------------------
\* Time of day.

\* datetime.strptime(s, "%I:%M %p").time()
strptime(s) ==
    IF /\ Len(s) = 3
       /\ s[1] \in 1..12
       /\ s[2] \in 0..59
       /\ s[3] \in {"AM", "PM"}
    THEN [ok |-> TRUE,
          hour |-> IF s[3] = "AM"
                   THEN (IF s[1] = 12 THEN 0 ELSE s[1])
                   ELSE (IF s[1] = 12 THEN 12 ELSE s[1] + 12),
          minute |-> s[2]]
    ELSE [ok |-> FALSE, hour |-> 0, minute |-> 0]

\* PlusThirty with the carry into the hour and no wrap at midnight.
PlusThirtyNoWrap(t) ==
    LET total == t.hour * 60 + t.minute + 30
    IN [hour |-> total \div 60, minute |-> total % 60]

\* (datetime.combine(datetime.today(), t) + timedelta(minutes=30)).time()
PlusThirty(t) ==
    LET total == t.hour * 60 + t.minute + 30
    IN [hour |-> (total \div 60) % 24, minute |-> total % 60]

----------------------------------------------------------------------------
\* The documents the command layer stores (context.user_data of one user).

Docs ==
    { [home_crs |-> "KGX", office_crs |-> "EUS", to_slot |-> <<8, 30, "AM">>],
      [home_crs |-> "KGX", office_crs |-> "EUS", to_slot |-> <<11, 45, "PM">>,
       from_slot |-> <<11, 45, "AM">>],
      [home_crs |-> "KGX", office_crs |-> "EUS"],
      [home_crs |-> "EUS", office_crs |-> "KGX", to_slot |-> <<>>,
       from_slot |-> <<12, 10, "AM">>],
      [office_crs |-> "EUS", to_slot |-> <<8, 30, "AM">>],
      [home_crs |-> "KGX", office_crs |-> "", to_slot |-> <<8, 30, "AM">>,
       from_slot |-> <<11, 45, "AM">>],
      [home_crs |-> "KGX", office_crs |-> "EUS", to_slot |-> <<17, 30, "">>,
       from_slot |-> <<11, 45, "AM">>],
      [home_crs |-> "KGX", office_crs |-> "EUS", to_slot |-> <<8, 30, "AM">>,
       from_slot |-> <<8, 75, "AM">>] }

\* The documents of a user with both stations, without and with a slot time.
FairDocs ==
    { [home_crs |-> "KGX", office_crs |-> "EUS"],
      [home_crs |-> "KGX", office_crs |-> "EUS", to_slot |-> <<8, 30, "AM">>] }

\* The tables bot_data.db may hold when the scheduler process starts: nothing
\* written yet, two configured users, or a row whose text is not JSON beside a
\* configured user.
InitialTables ==
    { EmptyTable,
      InsertOrReplace(
          InsertOrReplace(EmptyTable, 1,
              json_dumps([home_crs |-> "KGX", office_crs |-> "EUS",
                          to_slot |-> <<8, 30, "AM">>])),
          12, json_dumps([home_crs |-> "KGX", office_crs |-> "EUS",
                          to_slot |-> <<8, 30, "AM">>])),
      InsertOrReplace(
          InsertOrReplace(EmptyTable, 1, MalformedJson),
          12, json_dumps([home_crs |-> "KGX", office_crs |-> "EUS",
                          to_slot |-> <<11, 45, "PM">>,
                          from_slot |-> <<11, 45, "AM">>])) }

\* StationUnset as "key not in user_data": an empty code counts as set.
StationUnsetAbsentOnly(user_data, key) ==
    key \notin DOMAIN user_data

\* not user_data.get(key), for a station code
StationUnset(user_data, key) ==
    \/ key \notin DOMAIN user_data
    \/ user_data[key] = ""

\* not user_data.get(slot_type), for a time of day
SlotUnset(user_data, slot_type) ==
    \/ slot_type \notin DOMAIN user_data
    \/ user_data[slot_type] = <<>>

----------------------------------------------------------------------------
\* resync_all_user_schedules, after the scan.  st is [jobs, ids]: the job store
\* and current_job_ids.

\* The two add_job calls of one slot.
ScheduleSlot(st, user_id, slot_type, origin_crs, dest_crs, slot_time) ==
    LET chat_id == user_id
        second_notification_time == PlusThirty(slot_time)
        job_id_1 == JobId(user_id, slot_type, 1)
        job_id_2 == JobId(user_id, slot_type, 2)
        job_1 == CronJob(job_id_1, slot_time.hour, slot_time.minute,
                         <<chat_id, origin_crs, dest_crs>>)
        job_2 == CronJob(job_id_2, second_notification_time.hour,
                         second_notification_time.minute,
                         <<chat_id, origin_crs, dest_crs>>)
    IN [jobs |-> add_job(add_job(st.jobs, job_1), job_2),
        ids  |-> st.ids \cup {job_id_1, job_id_2}]

\* for slot_type, origin_crs, dest_crs in [...]: from the i-th slot on.  A time
\* that strptime rejects raises ValueError, which leaves the loop.
RECURSIVE ScheduleSlots(_, _, _, _, _)
ScheduleSlots(st, user_id, user_data, slots, i) ==
    IF i > Len(slots) THEN st
    ELSE LET slot_type == slots[i][1]
         IN IF SlotUnset(user_data, slot_type)
            THEN ScheduleSlots(st, user_id, user_data, slots, i + 1)
            ELSE LET slot_time == strptime(user_data[slot_type])
                 IN IF ~slot_time.ok
                    THEN st
                    ELSE ScheduleSlots(
                             ScheduleSlot(st, user_id, slot_type, slots[i][2],
                                          slots[i][3], slot_time),
                             user_id, user_data, slots, i + 1)

\* SlotList with the office-to-home direction not reversed.
SlotListOneDirection(home_crs, office_crs) ==
    << <<"to_slot", home_crs, office_crs>>, <<"from_slot", home_crs, office_crs>> >>

\* [('to_slot', home_crs, office_crs), ('from_slot', office_crs, home_crs)]
SlotList(home_crs, office_crs) ==
    << <<"to_slot", home_crs, office_crs>>, <<"from_slot", office_crs, home_crs>> >>

\* The body of the loop over users, for one row.
ScheduleUser(st, user_id, data_json) ==
    IF ~data_json.ok
    THEN st                                        \* json.JSONDecodeError
    ELSE LET user_data == data_json.doc
         IN IF StationUnset(user_data, "home_crs") \/ StationUnset(user_data, "office_crs")
            THEN st                                \* continue
            ELSE LET home_crs == user_data["home_crs"]
                     office_crs == user_data["office_crs"]
                 IN ScheduleSlots(st, user_id, user_data,
                                  SlotList(home_crs, office_crs), 1)

\* ScheduleUsers with the try around the loop: a row that is not JSON ends it.
RECURSIVE ScheduleUsersUntilError(_, _, _)
ScheduleUsersUntilError(st, rows, i) ==
    IF i > Len(rows) THEN st
    ELSE IF ~rows[i][2].ok THEN st
    ELSE ScheduleUsersUntilError(ScheduleUser(st, rows[i][1], rows[i][2]), rows, i + 1)

\* for user_id, data_json in users: from the i-th row on.
RECURSIVE ScheduleUsers(_, _, _)
ScheduleUsers(st, rows, i) ==
    IF i > Len(rows) THEN st
    ELSE ScheduleUsers(ScheduleUser(st, rows[i][1], rows[i][2]), rows, i + 1)

\* IsStale without the test against current_job_ids: every job of the user goes.
IsStaleWhateverScheduled(job, user_id, ids) ==
    startswith(job.id, UserPrefix(user_id))

\* The test of the removal loop; user_id is what the loop over users left in it.
IsStale(job, user_id, ids) ==
    /\ startswith(job.id, UserPrefix(user_id))
    /\ job.id \notin ids

\* RemoveStale without the test of the id's prefix: every job the pass did not
\* schedule is removed.
RemoveStaleAnyPrefix(store, user_id, ids) ==
    {j \in store : j.id \in ids}

\* for job in scheduler.get_jobs(): if ...: scheduler.remove_job(job.id)
RemoveStale(store, user_id, ids) ==
    {j \in store : ~IsStale(j, user_id, ids)}

\* Resync without the early return, removing every notification job the pass
\* did not schedule.
ResyncRemovingUnscheduled(store, rows) ==
    LET st == ScheduleUsers([jobs |-> store, ids |-> {}], rows, 1)
    IN [jobs |-> {j \in st.jobs : j.func = "send_schedule_notification" => j.id \in st.ids},
        ids |-> st.ids]

\* Resync that, when the scan returned nothing, removes every notification job.
ResyncClearingOnEmpty(store, rows) ==
    IF rows = <<>>
    THEN [jobs |-> {j \in store : j.func # "send_schedule_notification"}, ids |-> {}]
    ELSE LET st == ScheduleUsers([jobs |-> store, ids |-> {}], rows, 1)
             user_id == rows[Len(rows)][1]
         IN [jobs |-> RemoveStale(st.jobs, user_id, st.ids), ids |-> st.ids]

\* The whole body, from "if not users" on.
Resync(store, rows) ==
    IF rows = <<>>
    THEN [jobs |-> store, ids |-> {}]
    ELSE LET st == ScheduleUsers([jobs |-> store, ids |-> {}], rows, 1)
             user_id == rows[Len(rows)][1]
         IN [jobs |-> RemoveStale(st.jobs, user_id, st.ids), ids |-> st.ids]

----------------------------------------------------------------------------
\* The bot process: SQLitePersistence on its one connection.

update_user_data(user_id, data) ==
    /\ nwrites < MaxWrites
    /\ conn' = InsertOrReplace(conn, user_id, json_dumps(data))
    /\ nwrites' = nwrites + 1
    /\ UNCHANGED <<env, db, jobs, started, mainpc, pass_pc, instances, users,
                   current_job_ids, scan_error, same_scan, prior, passes>>
    /\ UNCHANGED outside_vars

drop_user_data(user_id) ==
    /\ nwrites < MaxWrites
    /\ conn' = DeleteRow(conn, user_id)
    /\ nwrites' = nwrites + 1
    /\ UNCHANGED <<env, db, jobs, started, mainpc, pass_pc, instances, users,
                   current_job_ids, scan_error, same_scan, prior, passes>>
    /\ UNCHANGED outside_vars

\* self.conn.commit()
flush ==
    /\ db' = conn
    /\ UNCHANGED <<env, conn, nwrites, jobs, started, mainpc, pass_pc, instances, users,
                   current_job_ids, scan_error, same_scan, prior, passes>>
    /\ UNCHANGED outside_vars

----------------------------------------------------------------------------
\* The scheduler process.

\* main(): TELEGRAM_BOT_TOKEN is missing.
main_no_token ==
    /\ mainpc = "start"
    /\ ~env.TELEGRAM_BOT_TOKEN
    /\ mainpc' = "exited"
    /\ UNCHANGED <<env, conn, db, nwrites, jobs, started, pass_pc, instances, users,
                   current_job_ids, scan_error, same_scan, prior, passes>>
    /\ UNCHANGED outside_vars

\* main(): up to the await of the initial resync_all_user_schedules.
main_initial_load ==
    /\ mainpc = "start"
    /\ env.TELEGRAM_BOT_TOKEN
    /\ mainpc' = "initial_load"
    /\ LET scheduler == AsyncIOScheduler(lost)
       IN /\ jobs' = scheduler.jobs
          /\ next_run_time' = scheduler.next_run_time
    /\ pass_pc' = "scan"
    /\ instances' = instances + 1
    /\ UNCHANGED <<env, conn, db, nwrites, started, users,
                   current_job_ids, scan_error, same_scan, prior, passes>>
    /\ UNCHANGED <<dispatches, nfires, now, lost, restarts, missed, fired>>
    /\ UNCHANGED bot_vars

\* A main() that installs resync_job and starts the scheduler without the
\* initial pass.
main_start_scheduler_unloaded ==
    /\ mainpc = "start"
    /\ env.TELEGRAM_BOT_TOKEN
    /\ jobs' = add_job(jobs, ResyncJob)
    /\ started' = TRUE
    /\ next_run_time' = [id \in JobIds(jobs') |-> now + 1]
    /\ mainpc' = "running"
    /\ UNCHANGED <<env, conn, db, nwrites, pass_pc, instances, users,
                   current_job_ids, scan_error, same_scan, prior, passes>>
    /\ UNCHANGED <<dispatches, nfires, now, lost, restarts, missed, fired>>
    /\ UNCHANGED bot_vars

\* main(): add_job(resync_all_user_schedules, 'interval', ...) and scheduler.start().
main_start_scheduler ==
    /\ mainpc = "schedule_resync"
    /\ jobs' = add_job(jobs, ResyncJob)
    /\ started' = TRUE
    /\ next_run_time' =
           [id \in JobIds(jobs') |->
               IF id = ResyncJob.id \/ next_run_time[id] = Pending
               THEN now + 1 ELSE next_run_time[id]]
    /\ mainpc' = "running"
    /\ UNCHANGED <<env, conn, db, nwrites, pass_pc, instances, users,
                   current_job_ids, scan_error, same_scan, prior, passes>>
    /\ UNCHANGED <<dispatches, nfires, now, lost, restarts, missed, fired>>
    /\ UNCHANGED bot_vars

\* The interval trigger of resync_job is due: the executor starts the coroutine
\* unless an instance of the job is still running (max_instances is 1).
resync_job_fires ==
    /\ started
    /\ ResyncJob.id \in JobIds(jobs)
    /\ InstanceFree(instances)
    /\ pass_pc' = "scan"
    /\ instances' = instances + 1
    /\ UNCHANGED <<env, conn, db, nwrites, jobs, started, mainpc, users,
                   current_job_ids, scan_error, same_scan, prior, passes>>
    /\ UNCHANGED outside_vars

\* get_all_user_data: the SELECT succeeds, on a connection of its own.
get_all_user_data ==
    /\ pass_pc = "scan"
    /\ users' = fetchall(db)
    /\ scan_error' = FALSE
    /\ same_scan' = (passes /\ fetchall(db) = users)
    /\ pass_pc' = "apply"
    /\ UNCHANGED <<env, conn, db, nwrites, jobs, started, mainpc, instances,
                   current_job_ids, prior, passes>>
    /\ UNCHANGED outside_vars

\* get_all_user_data: sqlite3.Error, logged, [] returned.
get_all_user_data_error ==
    /\ pass_pc = "scan"
    /\ users' = <<>>
    /\ scan_error' = TRUE
    /\ same_scan' = FALSE
    /\ pass_pc' = "apply"
    /\ UNCHANGED <<env, conn, db, nwrites, jobs, started, mainpc, instances,
                   current_job_ids, prior, passes>>
    /\ UNCHANGED outside_vars

\* resync_all_user_schedules, from the return of the scan to its end.
resync_all_user_schedules ==
    /\ pass_pc = "apply"
    /\ \E st \in {Resync(jobs, users)} :
          /\ jobs' = st.jobs
          /\ current_job_ids' = st.ids
          /\ next_run_time' =
                 [id \in JobIds(st.jobs) |->
                     IF id \in st.ids
                     THEN (IF started THEN now + 1 ELSE Pending)
                     ELSE next_run_time[id]]
    /\ prior' = jobs
    /\ passes' = TRUE
    /\ pass_pc' = "idle"
    /\ instances' = instances - 1
    /\ mainpc' = IF mainpc = "initial_load" THEN "schedule_resync" ELSE mainpc
    /\ UNCHANGED <<env, conn, db, nwrites, started, users, scan_error, same_scan>>
    /\ UNCHANGED <<dispatches, nfires, now, lost, restarts, missed, fired>>
    /\ UNCHANGED bot_vars

----------------------------------------------------------------------------
\* Letters, for str.upper(), str.lower() and str.isalpha().

UpperChars == <<"A", "B", "C", "D", "E", "F", "G", "H", "I", "J", "K", "L", "M",
                "N", "O", "P", "Q", "R", "S", "T", "U", "V", "W", "X", "Y", "Z">>

LowerChars == <<"a", "b", "c", "d", "e", "f", "g", "h", "i", "j", "k", "l", "m",
                "n", "o", "p", "q", "r", "s", "t", "u", "v", "w", "x", "y", "z">>

IndexIn(seq, c) == CHOOSE k \in DOMAIN seq : seq[k] = c

IsIn(seq, c) == \E k \in DOMAIN seq : seq[k] = c

\* str.lower(), character by character.
lower(s) ==
    [i \in DOMAIN s |->
        IF IsIn(UpperChars, s[i]) THEN LowerChars[IndexIn(UpperChars, s[i])] ELSE s[i]]

----------------------------------------------------------------------------
\* national_rail_api.fetch_train_schedule.  A text is a sequence of pieces; the
\* outcome of requests.get, raise_for_status and response.json is `reply`.

EmptyDict == [k \in {} |-> <<>>]

RECURSIVE join(_, _)
join(sep, lines) ==
    IF Len(lines) = 0 THEN <<>>
    ELSE IF Len(lines) = 1 THEN lines[1]
    ELSE lines[1] \o <<sep>> \o join(sep, Tail(lines))

\* service.get(key) formatted into an f-string: None prints as "None".
Field(service, key) ==
    IF key \in DOMAIN service THEN <<service[key]>> ELSE <<"None">>

\* The line of one service with a delay shown even when the service is cancelled.
ServiceLineDelayFirst(service) ==
    LET std == Field(service, "std")
        etd_truthy == "etd" \in DOMAIN service /\ service["etd"] # <<>>
        etd == IF "etd" \in DOMAIN service THEN service["etd"] ELSE <<"None">>
        platform == IF "platform" \in DOMAIN service THEN <<service["platform"]>> ELSE <<"TBA">>
        operator == Field(service, "operator")
        is_cancelled == IF "isCancelled" \in DOMAIN service THEN service["isCancelled"] ELSE FALSE
        status_1 == IF is_cancelled THEN std \o <<" - CANCELLED">> ELSE std \o <<" -> ">> \o etd
        status == IF etd_truthy /\ lower(etd) # <<"o", "n", " ", "t", "i", "m", "e">>
                  THEN std \o <<" (exp. ">> \o etd \o <<")">>
                  ELSE status_1
    IN <<"- ">> \o status \o <<", Plat: ">> \o platform \o <<", Op: ">> \o operator

\* Lines 31-45: the line of one service.
ServiceLine(service) ==
    LET std == Field(service, "std")
        etd_truthy == "etd" \in DOMAIN service /\ service["etd"] # <<>>
        etd == IF "etd" \in DOMAIN service THEN service["etd"] ELSE <<"None">>
        platform == IF "platform" \in DOMAIN service THEN <<service["platform"]>> ELSE <<"TBA">>
        operator == Field(service, "operator")
        is_cancelled == IF "isCancelled" \in DOMAIN service THEN service["isCancelled"] ELSE FALSE
        status_1 == std \o <<" -> ">> \o etd
        status_2 == IF etd_truthy /\ lower(etd) # <<"o", "n", " ", "t", "i", "m", "e">>
                    THEN std \o <<" (exp. ">> \o etd \o <<")">>
                    ELSE status_1
        status == IF is_cancelled THEN std \o <<" - CANCELLED">> ELSE status_2
    IN <<"- ">> \o status \o <<", Plat: ">> \o platform \o <<", Op: ">> \o operator

\* Lines 22-47: the body of the try block.
LookupBody(origin, destination, reply) ==
    IF reply.kind = "raise" THEN [raised |-> TRUE, exc |-> reply.exc]
    ELSE LET data == reply.data
         IN IF data = EmptyDict
               \/ "trainServices" \notin DOMAIN data
               \/ data["trainServices"] = <<>>
            THEN [raised |-> FALSE,
                  text |-> <<"No direct services found from ", origin, " to ",
                             destination, " at this time.">>]
            ELSE LET services == data["trainServices"]
                     schedule_lines ==
                         <<(<<"Trains from ", origin, " to ", destination, ":", "\n">>)>>
                         \o [i \in 1..Len(services) |-> ServiceLine(services[i])]
                 IN [raised |-> FALSE, text |-> join("\n", schedule_lines)]

\* requests.exceptions: the subclasses of RequestException.
RequestExceptionTypes == {"HTTPError", "ConnectionError", "Timeout"}

\* Lines 49-54 alone: what the except clauses would do without `except Exception`.
LookupHandlersRequestsOnly(result) ==
    IF ~result.raised THEN result
    ELSE IF result.exc.type = "HTTPError"
    THEN IF result.exc.status_code = 401
         THEN [raised |-> FALSE,
               text |-> <<"Authentication failed. Please check your API token.">>]
         ELSE [raised |-> FALSE,
               text |-> <<"Sorry, there was a problem reaching the schedule service (HTTP ">>
                        \o Str(result.exc.status_code) \o <<").">>]
    ELSE IF result.exc.type \in RequestExceptionTypes
    THEN [raised |-> FALSE,
          text |-> <<"Sorry, I couldn't connect to the train schedule service.">>]
    ELSE result

\* Lines 49-56: the except clauses, in order.
LookupHandlers(result) ==
    IF ~result.raised THEN result
    ELSE IF result.exc.type = "HTTPError"
    THEN IF result.exc.status_code = 401
         THEN [raised |-> FALSE,
               text |-> <<"Authentication failed. Please check your API token.">>]
         ELSE [raised |-> FALSE,
               text |-> <<"Sorry, there was a problem reaching the schedule service (HTTP ">>
                        \o Str(result.exc.status_code) \o <<").">>]
    ELSE IF result.exc.type \in RequestExceptionTypes
    THEN [raised |-> FALSE,
          text |-> <<"Sorry, I couldn't connect to the train schedule service.">>]
    ELSE [raised |-> FALSE,
          text |-> <<"An unexpected error occurred while fetching the schedule.">>]

fetch_train_schedule(api_token, user_agent_str, origin, destination, reply) ==
    IF ~api_token
    THEN [raised |-> FALSE, text |-> <<"National Rail API token is missing.">>]
    ELSE LookupHandlers(LookupBody(origin, destination, reply))

\* What the schedule service can answer for one request.
Services ==
    {[std |-> "08:05", etd |-> <<"O", "n", " ", "t", "i", "m", "e">>,
      platform |-> "4", operator |-> "LNER"],
     [std |-> "08:20", etd |-> <<"0", "8", ":", "2", "6">>, operator |-> "LNER"],
     [std |-> "08:35", etd |-> <<"C", "a", "n", "c", "e", "l", "l", "e", "d">>,
      platform |-> "2", operator |-> "GTR", isCancelled |-> TRUE]}

Payloads ==
    {EmptyDict, [locationName |-> "KGX"], [trainServices |-> <<>>]}
    \cup {[trainServices |-> <<s>>] : s \in Services}
    \cup {[trainServices |-> <<s, t>>] : s \in Services, t \in Services}

StatusCodes == {401, 429, 500}

Exceptions ==
    {[type |-> "HTTPError", status_code |-> c] : c \in StatusCodes}
    \cup {[type |-> x] : x \in {"ConnectionError", "Timeout", "AttributeError"}}

Replies ==
    {[kind |-> "json", data |-> d] : d \in Payloads}
    \cup {[kind |-> "raise", exc |-> x] : x \in Exceptions}

----------------------------------------------------------------------------
\* The dispatcher: send_schedule_notification, one coroutine per fire.

\* The jobs whose cron trigger the executor may fire: those live in the store.
DueIgnoringRemoval(store) ==
    {j \in store : j.trigger.type = "cron"}
    \cup {CronJob(JobId(12, "to_slot", 1), 8, 30, <<12, "KGX", "EUS">>)}

Due(store) == {j \in store : j.trigger.type = "cron"}

\* Lines 29-36: where the coroutine first awaits.
FirstAwaitSilent(api_token) == IF ~api_token THEN "done" ELSE "fetch"

FirstAwait(api_token) == IF ~api_token THEN "send_no_token" ELSE "fetch"

\* The text handed to bot.send_message at lines 32, 37 and 40.
Outgoing(d) ==
    CASE d.pc = "send_no_token" ->
             <<"Error: National Rail API token is not configured for the scheduler.">>
      [] d.pc = "send" -> d.message
      [] d.pc = "send_error" -> <<"Error fetching schedule: ", d.exc>>

\* What the schedule service answers to the requests of the dispatcher.
DispatchReplies ==
    {[kind |-> "json", data |-> [trainServices |-> <<s>>]] :
        s \in {t \in Services : "platform" \notin DOMAIN t}}
    \cup {[kind |-> "raise", exc |-> [type |-> "ConnectionError"]]}

\* cron_job_fires with the dispatches run one after another: a job fires only
\* when no dispatch is waiting on the lookup or on delivery.
cron_job_fires_serialized(job) ==
    /\ started
    /\ job \in Due(jobs)
    /\ \A d \in dispatches : d.pc = "done"
    /\ nfires' = nfires + 1
    /\ dispatches' = dispatches \cup
           {[n |-> nfires + 1, job |-> job.id, chat_id |-> job.args[1],
             origin_crs |-> job.args[2], destination_crs |-> job.args[3],
             pc |-> FirstAwait(env.NATIONAL_RAIL_API_TOKEN),
             message |-> <<>>, exc |-> "", sent |-> <<>>, escaped |-> FALSE,
             job_live |-> TRUE]}
    /\ UNCHANGED <<env, conn, db, nwrites, jobs, started, mainpc, pass_pc, instances, users,
                   current_job_ids, scan_error, same_scan, prior, passes>>
    /\ UNCHANGED bot_vars

\* The cron trigger of a live job fires: the executor calls
\* send_schedule_notification(*job.args), which runs to its first await.
cron_job_fires(job) ==
    /\ started
    /\ job \in Due(jobs)
    /\ nfires' = nfires + 1
    /\ dispatches' = dispatches \cup
           {[n |-> nfires + 1, job |-> job.id, chat_id |-> job.args[1],
             origin_crs |-> job.args[2], destination_crs |-> job.args[3],
             pc |-> FirstAwait(env.NATIONAL_RAIL_API_TOKEN),
             message |-> <<>>, exc |-> "", sent |-> <<>>, escaped |-> FALSE,
             job_live |-> TRUE]}
    /\ UNCHANGED <<env, conn, db, nwrites, jobs, started, mainpc, pass_pc, instances, users,
                   current_job_ids, scan_error, same_scan, prior, passes>>
    /\ UNCHANGED bot_vars

\* Line 36: fetch_train_schedule returns (or raises into the except of line 38).
await_fetch_train_schedule(d, reply) ==
    /\ d \in dispatches
    /\ d.pc = "fetch"
    /\ LET r == fetch_train_schedule(env.NATIONAL_RAIL_API_TOKEN, "USER_AGENT",
                                     d.origin_crs, d.destination_crs, reply)
       IN dispatches' = (dispatches \ {d}) \cup
              {IF r.raised
               THEN [d EXCEPT !.pc = "send_error", !.exc = r.exc.type,
                              !.job_live = d.job \in JobIds(jobs)]
               ELSE [d EXCEPT !.pc = "send", !.message = r.text,
                              !.job_live = d.job \in JobIds(jobs)]}
    /\ UNCHANGED <<env, conn, db, nwrites, jobs, started, mainpc, pass_pc, instances, users,
                   current_job_ids, scan_error, same_scan, prior, passes, nfires>>
    /\ UNCHANGED clock_vars
    /\ UNCHANGED bot_vars

\* bot.send_message returns: the text is delivered and the coroutine ends.
send_message(d) ==
    /\ d \in dispatches
    /\ d.pc \in {"send_no_token", "send", "send_error"}
    /\ dispatches' = (dispatches \ {d}) \cup
           {[d EXCEPT !.pc = "done", !.job_live = d.job \in JobIds(jobs),
                      !.sent = Append(d.sent, [chat_id |-> d.chat_id, text |-> Outgoing(d), ok |-> TRUE])]}
    /\ UNCHANGED <<env, conn, db, nwrites, jobs, started, mainpc, pass_pc, instances, users,
                   current_job_ids, scan_error, same_scan, prior, passes, nfires>>
    /\ UNCHANGED clock_vars
    /\ UNCHANGED bot_vars

\* bot.send_message raises.  Inside the try (line 37) the except of line 38
\* sends f"Error fetching schedule: {e}"; at lines 32 and 40 nothing catches it.
send_message_raises(d) ==
    /\ d \in dispatches
    /\ d.pc \in {"send_no_token", "send", "send_error"}
    /\ dispatches' = (dispatches \ {d}) \cup
           {IF d.pc = "send"
            THEN [d EXCEPT !.pc = "send_error", !.exc = "TelegramError",
                           !.job_live = d.job \in JobIds(jobs),
                           !.sent = Append(d.sent, [chat_id |-> d.chat_id,
                                                    text |-> Outgoing(d), ok |-> FALSE])]
            ELSE [d EXCEPT !.pc = "done", !.escaped = TRUE,
                           !.job_live = d.job \in JobIds(jobs),
                           !.sent = Append(d.sent, [chat_id |-> d.chat_id,
                                                    text |-> Outgoing(d), ok |-> FALSE])]}
    /\ UNCHANGED <<env, conn, db, nwrites, jobs, started, mainpc, pass_pc, instances, users,
                   current_job_ids, scan_error, same_scan, prior, passes, nfires>>
    /\ UNCHANGED clock_vars
    /\ UNCHANGED bot_vars

----------------------------------------------------------------------------
\* The clock and the life of the process.

\* The executor fires a job when its next run time has come, and computes the
\* run time that follows.
run_time_reached(job) ==
    /\ next_run_time[job.id] # Pending
    /\ next_run_time[job.id] <= now
    /\ fired' = fired \cup {[job |-> job.id, run_time |-> next_run_time[job.id], at |-> now]}
    /\ next_run_time' = [next_run_time EXCEPT ![job.id] = now + 1]
    /\ UNCHANGED <<now, lost, restarts, missed>>

\* A running scheduler fires what is due before the moment has passed.
Overdue ==
    /\ mainpc = "running"
    /\ \E job \in Due(jobs) : next_run_time[job.id] <= now

\* The next trigger moment comes.  While the process is down the jobs it had
\* miss that moment.
tick ==
    /\ now < MaxTicks
    /\ ~Overdue
    /\ now' = now + 1
    /\ missed' = IF mainpc = "down"
                 THEN missed \cup {[job |-> j.id, run_time |-> now + 1] : j \in Due(lost.jobs)}
                 ELSE missed
    /\ UNCHANGED <<env, conn, db, nwrites, jobs, started, mainpc, pass_pc, instances, users,
                   current_job_ids, scan_error, same_scan, prior, passes>>
    /\ UNCHANGED <<dispatches, nfires, next_run_time, lost, restarts, fired>>
    /\ UNCHANGED bot_vars

\* main(): KeyboardInterrupt or SystemExit in the sleep loop, scheduler.shutdown();
\* the coroutines in flight end with the event loop.
process_stops ==
    /\ mainpc = "running"
    /\ restarts < MaxRestarts
    /\ restarts' = restarts + 1
    /\ lost' = [jobs |-> jobs, next_run_time |-> next_run_time]
    /\ mainpc' = "down"
    /\ started' = FALSE
    /\ pass_pc' = "idle"
    /\ instances' = 0
    /\ users' = <<>>
    /\ current_job_ids' = {}
    /\ dispatches' = {d \in dispatches : d.pc = "done"}
    /\ jobs' = {}
    /\ next_run_time' = NoRunTimes
    /\ UNCHANGED <<env, conn, db, nwrites, scan_error, same_scan, prior, passes>>
    /\ UNCHANGED <<nfires, now, missed, fired>>
    /\ UNCHANGED bot_vars

\* The process is launched again: asyncio.run(main()).
process_starts ==
    /\ mainpc = "down"
    /\ mainpc' = "start"
    /\ UNCHANGED <<env, conn, db, nwrites, jobs, started, pass_pc, instances, users,
                   current_job_ids, scan_error, same_scan, prior, passes>>
    /\ UNCHANGED outside_vars

----------------------------------------------------------------------------
\* SQLitePersistence: each storage operation runs its statements on self.conn
\* in a thread of the default executor, through asyncio.to_thread.

StorageOperations ==
    {[name |-> "update_user_data", user_id |-> u, data |-> d] : u \in UserIds, d \in FairDocs}
    \cup {[name |-> n, user_id |-> u] : n \in {"drop_user_data", "refresh_user_data"},
                                        u \in UserIds}
    \cup {[name |-> "get_user_data"], [name |-> "flush"]}

IsWrite(op) == op.name \in {"update_user_data", "drop_user_data"}

\* await asyncio.to_thread(sync_...): a thread of the pool takes the operation.
\* Nothing makes it wait for an operation already running on self.conn.
to_thread(op) ==
    /\ op \notin in_conn
    /\ Cardinality(in_conn) < MaxThreads
    /\ IsWrite(op) => nwrites < MaxWrites
    /\ nwrites' = IF IsWrite(op) THEN nwrites + 1 ELSE nwrites
    /\ in_conn' = in_conn \cup {op}
    /\ UNCHANGED <<env, conn, db, jobs, started, mainpc, pass_pc, instances, users,
                   current_job_ids, scan_error, same_scan, prior, passes>>
    /\ UNCHANGED <<dispatches, nfires, now, next_run_time, lost, restarts, missed, fired>>
    /\ UNCHANGED <<context_user_data, reply_text, last_command, before, lookup>>

\* The operation's statements have run and its thread returns.
thread_returns(op) ==
    /\ op \in in_conn
    /\ in_conn' = in_conn \ {op}
    /\ conn' = CASE op.name = "update_user_data" ->
                        InsertOrReplace(conn, op.user_id, json_dumps(op.data))
                  [] op.name = "drop_user_data" -> DeleteRow(conn, op.user_id)
                  [] OTHER -> conn
    /\ db' = IF op.name = "flush" THEN conn ELSE db
    /\ UNCHANGED <<env, nwrites, jobs, started, mainpc, pass_pc, instances, users,
                   current_job_ids, scan_error, same_scan, prior, passes>>
    /\ UNCHANGED <<dispatches, nfires, now, next_run_time, lost, restarts, missed, fired>>
    /\ UNCHANGED <<context_user_data, reply_text, last_command, before, lookup>>

----------------------------------------------------------------------------
\* bot.py: the station commands.  A command argument is a sequence of
\* characters.

\* str.upper() of one character; the sharp s has the two-letter upper case SS.
UpperOf(c) ==
    IF IsIn(LowerChars, c) THEN <<UpperChars[IndexIn(LowerChars, c)]>>
    ELSE IF c = "ß" THEN <<"S", "S">>
    ELSE <<c>>

RECURSIVE upper(_)
upper(s) == IF s = <<>> THEN <<>> ELSE UpperOf(Head(s)) \o upper(Tail(s))

isalpha(s) ==
    /\ s # <<>>
    /\ \A i \in DOMAIN s : IsIn(UpperChars, s[i]) \/ IsIn(LowerChars, s[i]) \/ s[i] = "ß"

\* context.user_data[key] = value
SetItem(doc, key, value) ==
    [k \in DOMAIN doc \cup {key} |-> IF k = key THEN value ELSE doc[k]]

\* What context.args can be.
CommandArgs ==
    { <<>>,
      << <<"k", "g", "x">> >>,
      << <<"K", "G", "X">> >>,
      << <<"e", "u", "s">>, <<"k", "g", "x">> >>,
      << <<"k", "g">> >>,
      << <<"k", "g", "x", "x">> >>,
      << <<"k", "1", "x">> >>,
      << <<"a", "ß">> >> }

\* What context.user_data can hold when a command arrives.
BotDocs ==
    { EmptyDict,
      [home_crs |-> <<"K", "G", "X">>, office_crs |-> <<"E", "U", "S">>,
       to_slot |-> <<8, 30, "AM">>] }

\* @restricted: the sender may use the handler.
Authorized(user_id) ==
    env.AUTHORIZED_USER_IDS = {} \/ user_id \in env.AUTHORIZED_USER_IDS

\* @restricted turns the command away.
restricted_denies(name, user_id, args) ==
    /\ ~Authorized(user_id)
    /\ reply_text' = <<"Sorry, you are not authorized to use this bot.">>
    /\ last_command' = [name |-> name, user_id |-> user_id, args |-> args, denied |-> TRUE]
    /\ before' = context_user_data
    /\ UNCHANGED <<env, conn, db, nwrites, jobs, started, mainpc, pass_pc, instances, users,
                   current_job_ids, scan_error, same_scan, prior, passes>>
    /\ UNCHANGED <<dispatches, nfires, now, next_run_time, lost, restarts, missed, fired>>
    /\ UNCHANGED <<in_conn, context_user_data, lookup>>

\* set_home and set_office: key is 'home_crs' or 'office_crs'.
SetStation(name, key, usage, confirmation, user_id, args) ==
    /\ Authorized(user_id)
    /\ last_command' = [name |-> name, user_id |-> user_id, args |-> args, denied |-> FALSE]
    /\ before' = context_user_data
    /\ IF args = <<>>
       THEN /\ reply_text' = <<usage>>
            /\ UNCHANGED context_user_data
       ELSE LET crs_code == upper(args[1])
            IN IF Len(crs_code) # 3 \/ ~isalpha(crs_code)
               THEN /\ reply_text' = <<usage>>
                    /\ UNCHANGED context_user_data
               ELSE /\ context_user_data' =
                           [context_user_data EXCEPT
                               ![user_id] = SetItem(context_user_data[user_id], key, crs_code)]
                    /\ reply_text' = <<confirmation>> \o crs_code
    /\ UNCHANGED <<env, conn, db, nwrites, jobs, started, mainpc, pass_pc, instances, users,
                   current_job_ids, scan_error, same_scan, prior, passes>>
    /\ UNCHANGED <<dispatches, nfires, now, next_run_time, lost, restarts, missed, fired>>
    /\ UNCHANGED <<in_conn, lookup>>

set_home(user_id, args) ==
    SetStation("set_home", "home_crs", "Usage: /set_home <3_LETTER_CRS_CODE>",
               "Home station set to ", user_id, args)

set_office(user_id, args) ==
    SetStation("set_office", "office_crs", "Usage: /set_office <3_LETTER_CRS_CODE>",
               "Office station set to ", user_id, args)

----------------------------------------------------------------------------
\* Calls of the schedule lookup.

Stations == {"KGX", "EUS"}

\* bot.fetch_train_schedule: the token is read from the environment, the rest
\* is the code of national_rail_api.fetch_train_schedule.
bot_fetch_train_schedule(origin, destination, reply) ==
    IF ~env.NATIONAL_RAIL_API_TOKEN
    THEN [raised |-> FALSE,
          text |-> <<"NATIONAL_RAIL_API_TOKEN not found in environment variables.">>]
    ELSE LookupHandlers(LookupBody(origin, destination, reply))

\* A caller awaits national_rail_api.fetch_train_schedule.
call_fetch_train_schedule(api_token, origin, destination, reply) ==
    /\ lookup' = [api_token |-> api_token, origin |-> origin, destination |-> destination,
                  reply |-> reply,
                  result |-> fetch_train_schedule(api_token, "USER_AGENT", origin,
                                                  destination, reply)]
    /\ UNCHANGED <<env, conn, db, nwrites, jobs, started, mainpc, pass_pc, instances, users,
                   current_job_ids, scan_error, same_scan, prior, passes>>
    /\ UNCHANGED <<dispatches, nfires, now, next_run_time, lost, restarts, missed, fired>>
    /\ UNCHANGED <<in_conn, context_user_data, reply_text, last_command, before>>

\* A handler of the bot awaits bot.fetch_train_schedule.
call_bot_fetch_train_schedule(origin, destination, reply) ==
    /\ lookup' = [api_token |-> env.NATIONAL_RAIL_API_TOKEN, origin |-> origin,
                  destination |-> destination, reply |-> reply,
                  result |-> bot_fetch_train_schedule(origin, destination, reply)]
    /\ UNCHANGED <<env, conn, db, nwrites, jobs, started, mainpc, pass_pc, instances, users,
                   current_job_ids, scan_error, same_scan, prior, passes>>
    /\ UNCHANGED <<dispatches, nfires, now, next_run_time, lost, restarts, missed, fired>>
    /\ UNCHANGED <<in_conn, context_user_data, reply_text, last_command, before>>

----------------------------------------------------------------------------

\* No trigger has fired yet.
InitOutside ==
    /\ dispatches = {}
    /\ nfires = 0
    /\ now = 0
    /\ next_run_time = NoRunTimes
    /\ lost = [jobs |-> {}, next_run_time |-> NoRunTimes]
    /\ restarts = 0
    /\ missed = {}
    /\ fired = {}
    /\ in_conn = {}
    /\ context_user_data = [u \in UserIds |-> EmptyDict]
    /\ reply_text = <<>>
    /\ last_command = <<>>
    /\ before = context_user_data
    /\ lookup = <<>>

Init ==
    /\ env \in [TELEGRAM_BOT_TOKEN : BOOLEAN, NATIONAL_RAIL_API_TOKEN : {TRUE},
                 AUTHORIZED_USER_IDS : {{}}]
    /\ db \in InitialTables
    /\ conn = db
    /\ nwrites = 0
    /\ jobs = {}
    /\ started = FALSE
    /\ mainpc = "start"
    /\ pass_pc = "idle"
    /\ instances = 0
    /\ users = <<>>
    /\ current_job_ids = {}
    /\ scan_error = FALSE
    /\ same_scan = FALSE
    /\ prior = {}
    /\ passes = FALSE
    /\ InitOutside

Next ==
    \/ \E u \in UserIds, d \in Docs : update_user_data(u, d)
    \/ \E u \in UserIds : drop_user_data(u)
    \/ flush
    \/ main_no_token
    \/ main_initial_load
    \/ main_start_scheduler
    \/ resync_job_fires
    \/ get_all_user_data
    \/ get_all_user_data_error
    \/ resync_all_user_schedules

Spec == Init /\ [][Next]_vars

\* The scheduler process alone, over a registry that holds one user with both
\* stations and one slot set to any well-formed time of day.
AllTimes == {<<h, m, p>> : h \in 1..12, m \in 0..59, p \in {"AM", "PM"}}

OneSlotDocs ==
    {[home_crs |-> "KGX", office_crs |-> "EUS", to_slot |-> t] : t \in AllTimes}
    \cup {[home_crs |-> "KGX", office_crs |-> "EUS", from_slot |-> t] : t \in AllTimes}

InitTimes ==
    /\ env \in [TELEGRAM_BOT_TOKEN : BOOLEAN, NATIONAL_RAIL_API_TOKEN : {TRUE},
                 AUTHORIZED_USER_IDS : {{}}]
    /\ \E d \in OneSlotDocs : db = InsertOrReplace(EmptyTable, 1, json_dumps(d))
    /\ conn = db
    /\ nwrites = 0
    /\ jobs = {}
    /\ started = FALSE
    /\ mainpc = "start"
    /\ pass_pc = "idle"
    /\ instances = 0
    /\ users = <<>>
    /\ current_job_ids = {}
    /\ scan_error = FALSE
    /\ same_scan = FALSE
    /\ prior = {}
    /\ passes = FALSE
    /\ InitOutside

NextScheduler ==
    \/ main_no_token
    \/ main_initial_load
    \/ main_start_scheduler
    \/ resync_job_fires
    \/ get_all_user_data
    \/ get_all_user_data_error
    \/ resync_all_user_schedules

SpecTimes == InitTimes /\ [][NextScheduler]_vars

\* The scheduler process with its dispatcher.  The bot has written to the
\* registry before the scheduler starts; what it has not committed yet is
\* committed by flush.
PendingTables(table) ==
    {table}
    \cup {InsertOrReplace(table, u, json_dumps([home_crs |-> "KGX", office_crs |-> "EUS"])) :
             u \in DOMAIN table}

InitDispatch ==
    /\ env \in [TELEGRAM_BOT_TOKEN : {TRUE}, NATIONAL_RAIL_API_TOKEN : BOOLEAN,
                 AUTHORIZED_USER_IDS : {{}}]
    /\ db \in InitialTables
    /\ conn \in PendingTables(db)
    /\ nwrites = 0
    /\ jobs = {}
    /\ started = FALSE
    /\ mainpc = "start"
    /\ pass_pc = "idle"
    /\ instances = 0
    /\ users = <<>>
    /\ current_job_ids = {}
    /\ scan_error = FALSE
    /\ same_scan = FALSE
    /\ prior = {}
    /\ passes = FALSE
    /\ InitOutside

NextDispatch ==
    \/ flush
    \/ main_initial_load
    \/ main_start_scheduler
    \/ resync_job_fires
    \/ get_all_user_data
    \/ resync_all_user_schedules
    \/ \E job \in Due(jobs) :
           nfires < MaxFires /\ cron_job_fires(job) /\ UNCHANGED clock_vars
    \/ \E d \in dispatches, reply \in DispatchReplies : await_fetch_train_schedule(d, reply)
    \/ \E d \in dispatches : send_message(d)
    \/ \E d \in dispatches : send_message_raises(d)

SpecDispatch == InitDispatch /\ [][NextDispatch]_vars

\* The scheduler process over time: trigger moments come, the process is
\* stopped and launched again.
NextRestart ==
    \/ main_initial_load
    \/ main_start_scheduler
    \/ resync_job_fires
    \/ get_all_user_data
    \/ get_all_user_data_error
    \/ resync_all_user_schedules
    \/ \E job \in Due(jobs) :
           nfires < MaxFires /\ cron_job_fires(job) /\ run_time_reached(job)
    \/ tick
    \/ process_stops
    \/ process_starts

InitRestart ==
    /\ InitDispatch
    /\ env.NATIONAL_RAIL_API_TOKEN
    /\ conn = db

SpecRestart == InitRestart /\ [][NextRestart]_vars

\* A scheduler with its tokens over a registry of one configured user, whose
\* two jobs come due at the same moments; their dispatches run alongside each
\* other and alongside the periodic passes.
InitFiring ==
    /\ env = [TELEGRAM_BOT_TOKEN |-> TRUE, NATIONAL_RAIL_API_TOKEN |-> TRUE,
              AUTHORIZED_USER_IDS |-> {}]
    /\ db = InsertOrReplace(EmptyTable, 12,
                json_dumps([home_crs |-> "KGX", office_crs |-> "EUS",
                            to_slot |-> <<8, 30, "AM">>]))
    /\ conn = db
    /\ nwrites = 0
    /\ jobs = {}
    /\ started = FALSE
    /\ mainpc = "start"
    /\ pass_pc = "idle"
    /\ instances = 0
    /\ users = <<>>
    /\ current_job_ids = {}
    /\ scan_error = FALSE
    /\ same_scan = FALSE
    /\ prior = {}
    /\ passes = FALSE
    /\ InitOutside

NextFiring ==
    \/ main_initial_load
    \/ main_start_scheduler
    \/ resync_job_fires
    \/ get_all_user_data
    \/ resync_all_user_schedules
    \/ \E job \in Due(jobs) :
           nfires < MaxDispatches /\ cron_job_fires(job) /\ run_time_reached(job)
    \/ tick
    \/ \E d \in dispatches, reply \in DispatchReplies : await_fetch_train_schedule(d, reply)
    \/ \E d \in dispatches : send_message(d)

SpecFiring == InitFiring /\ [][NextFiring]_vars

\* The bot and a scheduler that has its tokens, over a registry of configured
\* users where the bot sets and clears slot times and drops rows; the scan
\* does not fail.
InitFair ==
    /\ Init
    /\ env.TELEGRAM_BOT_TOKEN
    /\ db # EmptyTable
    /\ \A u \in DOMAIN db : db[u].ok

SchedulerStep ==
    \/ main_initial_load
    \/ main_start_scheduler
    \/ resync_job_fires
    \/ get_all_user_data
    \/ resync_all_user_schedules

NextFair ==
    \/ \E u \in UserIds, d \in FairDocs : update_user_data(u, d)
    \/ \E u \in UserIds : drop_user_data(u)
    \/ flush
    \/ SchedulerStep

\* main() proceeds, the interval trigger of resync_job keeps firing, and a
\* pass that has started ends.
SpecFair == InitFair /\ [][NextFair]_vars /\ WF_vars(SchedulerStep)

\* The bot's storage operations alone, each in its thread.
NextConn ==
    \/ \E op \in StorageOperations : to_thread(op)
    \/ \E op \in StorageOperations : thread_returns(op)

SpecConn == Init /\ [][NextConn]_vars

\* The bot's station commands alone, from users with and without a stored
\* configuration, with the bot open to everyone or to user 1 only.
InitBot ==
    /\ env \in [TELEGRAM_BOT_TOKEN : {TRUE}, NATIONAL_RAIL_API_TOKEN : {TRUE},
                 AUTHORIZED_USER_IDS : {{}, {1}}]
    /\ db = EmptyTable
    /\ conn = db
    /\ nwrites = 0
    /\ jobs = {}
    /\ started = FALSE
    /\ mainpc = "start"
    /\ pass_pc = "idle"
    /\ instances = 0
    /\ users = <<>>
    /\ current_job_ids = {}
    /\ scan_error = FALSE
    /\ same_scan = FALSE
    /\ prior = {}
    /\ passes = FALSE
    /\ dispatches = {}
    /\ nfires = 0
    /\ now = 0
    /\ next_run_time = NoRunTimes
    /\ lost = [jobs |-> {}, next_run_time |-> NoRunTimes]
    /\ restarts = 0
    /\ missed = {}
    /\ fired = {}
    /\ in_conn = {}
    /\ context_user_data \in [UserIds -> BotDocs]
    /\ reply_text = <<>>
    /\ last_command = <<>>
    /\ before = context_user_data
    /\ lookup = <<>>

NextBot ==
    \/ \E u \in UserIds, args \in CommandArgs : set_home(u, args)
    \/ \E u \in UserIds, args \in CommandArgs : set_office(u, args)
    \/ \E u \in UserIds, args \in CommandArgs, name \in {"set_home", "set_office"} :
           restricted_denies(name, u, args)

SpecBot == InitBot /\ [][NextBot]_vars

\* The lookup alone, called with every token, station pair and reply.
InitLookup ==
    /\ env \in [TELEGRAM_BOT_TOKEN : {TRUE}, NATIONAL_RAIL_API_TOKEN : BOOLEAN,
                 AUTHORIZED_USER_IDS : {{}}]
    /\ db = EmptyTable
    /\ conn = db
    /\ nwrites = 0
    /\ jobs = {}
    /\ started = FALSE
    /\ mainpc = "start"
    /\ pass_pc = "idle"
    /\ instances = 0
    /\ users = <<>>
    /\ current_job_ids = {}
    /\ scan_error = FALSE
    /\ same_scan = FALSE
    /\ prior = {}
    /\ passes = FALSE
    /\ InitOutside

NextLookup ==
    \/ \E api_token \in BOOLEAN, origin \in Stations, destination \in Stations,
          reply \in Replies :
           call_fetch_train_schedule(api_token, origin, destination, reply)
    \/ \E origin \in Stations, destination \in Stations, reply \in Replies :
           call_bot_fetch_train_schedule(origin, destination, reply)

SpecLookup == InitLookup /\ [][NextLookup]_vars

TypeOK ==
    /\ nwrites \in 0..MaxWrites
    /\ pass_pc \in {"idle", "scan", "apply"}
    /\ mainpc \in {"start", "exited", "initial_load", "schedule_resync", "running", "down"}

----------------------------------------------------------------------------
\* Vocabulary of the properties, stated on the stored documents themselves.

SlotTypes == {"to_slot", "from_slot"}

\* A pass has run to its end and no other has begun: users, current_job_ids and
\* prior are those of that pass.
PassEnded == passes /\ pass_pc = "idle"

NotificationJobs(store) == {j \in store : j.func = "send_schedule_notification"}

HasStation(doc, key) == key \in DOMAIN doc /\ doc[key] # ""

BothStations(doc) == HasStation(doc, "home_crs") /\ HasStation(doc, "office_crs")

TimeSet(doc, slot_type) == slot_type \in DOMAIN doc /\ doc[slot_type] # <<>>

WellFormedTime(t) ==
    /\ Len(t) = 3
    /\ t[1] >= 1 /\ t[1] <= 12
    /\ t[2] >= 0 /\ t[2] <= 59
    /\ t[3] = "AM" \/ t[3] = "PM"

MalformedTime(doc, slot_type) ==
    TimeSet(doc, slot_type) /\ ~WellFormedTime(doc[slot_type])

\* The row parses: its text is JSON and no time of day in it is malformed.
RowParses(row) ==
    /\ row[2].ok
    /\ \A s \in SlotTypes : ~MalformedTime(row[2].doc, s)

ScannedIds == {users[i][1] : i \in 1..Len(users)}

RowOf(user_id) == CHOOSE row \in {users[i] : i \in 1..Len(users)} : row[1] = user_id

SlotIds(user_id, slot_type) == {JobId(user_id, slot_type, 1), JobId(user_id, slot_type, 2)}

IdsOfUser(user_id) == UNION {SlotIds(user_id, s) : s \in SlotTypes}

\* The keys derivable from the scanned rows: (user, slot, offset) for every slot
\* with a time set of every user with both stations set.
DesiredIds ==
    UNION { SlotIds(u, s) : <<u, s>> \in
              { <<v, t>> \in ScannedIds \X SlotTypes :
                  /\ RowOf(v)[2].ok
                  /\ BothStations(RowOf(v)[2].doc)
                  /\ TimeSet(RowOf(v)[2].doc, t) } }

----------------------------------------------------------------------------
\* C1 (Convergence): at the end of every pass the ids of the live notification
\* jobs are exactly the ids derivable from the rows the pass scanned.  Stated for
\* the passes that scanned at least one row, all of which parse.
C1_Convergence ==
    (PassEnded /\ users # <<>> /\ \A i \in 1..Len(users) : RowParses(users[i]))
        => JobIds(NotificationJobs(jobs)) = DesiredIds

\* C2 (Global stale removal): when users A and B both have live jobs and the
\* scanned row of A has a slot cleared while B's slots stay set, the pass removes
\* A's two jobs of that slot and leaves B's jobs in place.
C2_GlobalStaleRemoval ==
    PassEnded =>
        \A a \in ScannedIds, b \in ScannedIds, s \in SlotTypes :
            ( /\ a # b
              /\ SlotIds(a, s) \subseteq JobIds(prior)
              /\ RowParses(RowOf(a)) /\ ~TimeSet(RowOf(a)[2].doc, s)
              /\ IdsOfUser(b) \cap JobIds(prior) # {}
              /\ RowParses(RowOf(b)) /\ BothStations(RowOf(b)[2].doc)
              /\ \A t \in SlotTypes :
                   SlotIds(b, t) \cap JobIds(prior) # {} => TimeSet(RowOf(b)[2].doc, t) )
            => /\ SlotIds(a, s) \cap JobIds(jobs) = {}
               /\ IdsOfUser(b) \cap JobIds(prior) \subseteq JobIds(jobs)

\* C3 (Derivation skips incomplete users): a pass installs no job for a scanned
\* user whose home or office station is absent or empty: none of the user's ids is
\* scheduled by the pass, and every job of the user that is live after the pass
\* was live, unchanged, before it.
C3_IncompleteUserSkipped ==
    PassEnded =>
        \A u \in ScannedIds :
            (RowOf(u)[2].ok /\ ~BothStations(RowOf(u)[2].doc))
            => /\ IdsOfUser(u) \cap current_job_ids = {}
               /\ \A j \in jobs : j.id \in IdsOfUser(u) => j \in prior

\* The case of C3: a pass that scheduled jobs for another user scanned a user with
\* a slot time set and no home station.
C3_Witness ==
    /\ PassEnded
    /\ current_job_ids # {}
    /\ \E u \in ScannedIds :
         /\ RowOf(u)[2].ok
         /\ "home_crs" \notin DOMAIN RowOf(u)[2].doc
         /\ TimeSet(RowOf(u)[2].doc, "to_slot")

\* C4 (Secondary offset): for a slot time t = hh:mm AM/PM the pass installs the
\* primary job at t, as minute (hh mod 12) * 60 + mm of the day, plus 720 for PM,
\* and the secondary job 30 minutes later modulo 24 hours, both on Monday-Friday.
C4_SecondaryOffset ==
    PassEnded =>
        \A u \in ScannedIds, s \in SlotTypes :
            ( /\ RowParses(RowOf(u))
              /\ BothStations(RowOf(u)[2].doc)
              /\ TimeSet(RowOf(u)[2].doc, s) )
            => LET t == RowOf(u)[2].doc[s]
                   primary == ((t[1] % 12) + (IF t[3] = "PM" THEN 12 ELSE 0)) * 60 + t[2]
                   secondary == (primary + 30) % 1440
                   At(j, minute_of_day) ==
                       /\ j.trigger.type = "cron"
                       /\ j.trigger.day_of_week = "mon-fri"
                       /\ j.trigger.hour \in 0..23
                       /\ j.trigger.minute \in 0..59
                       /\ j.trigger.hour * 60 + j.trigger.minute = minute_of_day
               IN /\ \E j \in NotificationJobs(jobs) :
                        j.id = JobId(u, s, 1) /\ At(j, primary)
                  /\ \E j \in NotificationJobs(jobs) :
                        j.id = JobId(u, s, 2) /\ At(j, secondary)

\* The case of C4: a slot at 11:45 PM, whose secondary job is live at 00:15.
C4_Witness ==
    /\ PassEnded
    /\ 1 \in ScannedIds
    /\ RowOf(1)[2].ok
    /\ TimeSet(RowOf(1)[2].doc, "to_slot")
    /\ RowOf(1)[2].doc["to_slot"] = <<11, 45, "PM">>
    /\ \E j \in NotificationJobs(jobs) :
         /\ j.id = JobId(1, "to_slot", 2)
         /\ j.trigger.hour = 0 /\ j.trigger.minute = 15

\* C5 (Paired triggers): in every state the primary and the secondary job of a
\* (user, slot) are both live or both absent; after a pass a slot with a time set
\* (of a user with both stations set) has exactly its two jobs live, and a slot
\* with no time in the scanned row has none.
C5_PairedTriggers ==
    /\ \A u \in UserIds, s \in SlotTypes :
           JobId(u, s, 1) \in JobIds(jobs) <=> JobId(u, s, 2) \in JobIds(jobs)
    /\ PassEnded =>
           \A u \in ScannedIds, s \in SlotTypes :
               RowParses(RowOf(u)) =>
                   /\ (BothStations(RowOf(u)[2].doc) /\ TimeSet(RowOf(u)[2].doc, s))
                          => /\ SlotIds(u, s) \subseteq JobIds(jobs)
                             /\ Cardinality({j \in jobs : j.id \in SlotIds(u, s)}) = 2
                   /\ ~TimeSet(RowOf(u)[2].doc, s)
                          => SlotIds(u, s) \cap JobIds(jobs) = {}

\* C6 (Direction of a slot): every job a pass installs is derived from a scanned
\* row: a to_slot job carries (user id, home, office) and a from_slot job
\* (user id, office, home) of that row.
C6_Direction ==
    PassEnded =>
        \A j \in NotificationJobs(jobs) :
            j.id \in current_job_ids =>
                \E u \in ScannedIds :
                    /\ RowOf(u)[2].ok
                    /\ BothStations(RowOf(u)[2].doc)
                    /\ LET doc == RowOf(u)[2].doc
                       IN \/ /\ j.id \in SlotIds(u, "to_slot")
                             /\ j.args = <<u, doc["home_crs"], doc["office_crs"]>>
                          \/ /\ j.id \in SlotIds(u, "from_slot")
                             /\ j.args = <<u, doc["office_crs"], doc["home_crs"]>>

\* The case of C6: one pass installed to_slot and from_slot jobs for a user
\* whose home and office differ.
C6_Witness ==
    /\ PassEnded
    /\ \E u \in ScannedIds :
         /\ IdsOfUser(u) \subseteq current_job_ids
         /\ IdsOfUser(u) \subseteq JobIds(jobs)
         /\ RowOf(u)[2].doc["home_crs"] # RowOf(u)[2].doc["office_crs"]

C8_ScanFailureAborts ==
    (PassEnded /\ scan_error) =>
        /\ current_job_ids = {}
        /\ NotificationJobs(jobs) = NotificationJobs(prior)
        /\ ResyncJob \in prior => ResyncJob \in jobs
        /\ \/ mainpc = "schedule_resync"
           \/ mainpc = "running" /\ started /\ ResyncJob \in jobs

\* The case of C8: the scan of a periodic pass failed while jobs were live.
C8_Witness ==
    /\ PassEnded
    /\ scan_error
    /\ started
    /\ NotificationJobs(jobs) # {}
    /\ DOMAIN db # {}

\* C9 (Per-user error isolation): when a scanned row fails to parse, the keys
\* derivable from every other row that parses are scheduled by the pass and live
\* after it.
C9_ErrorIsolation ==
    PassEnded =>
        \A u \in ScannedIds, v \in ScannedIds :
            ( /\ u # v
              /\ ~RowParses(RowOf(v))
              /\ RowParses(RowOf(u))
              /\ BothStations(RowOf(u)[2].doc) )
            => \A s \in SlotTypes :
                   TimeSet(RowOf(u)[2].doc, s)
                       => /\ SlotIds(u, s) \subseteq current_job_ids
                          /\ SlotIds(u, s) \subseteq JobIds(jobs)

\* The case of C9: the first scanned row is not JSON and the row after it has
\* its jobs scheduled by the pass.
C9_Witness ==
    /\ PassEnded
    /\ Len(users) = 2
    /\ ~users[1][2].ok
    /\ RowParses(users[2])
    /\ current_job_ids # {}
    /\ current_job_ids \subseteq IdsOfUser(users[2][1])

\* C10 (Offending user skipped): a pass installs or replaces no job of a user
\* whose row holds a malformed time of day in either slot.
C10_OffendingUserSkipped ==
    PassEnded =>
        \A u \in ScannedIds :
            ( /\ RowOf(u)[2].ok
              /\ \E s \in SlotTypes : MalformedTime(RowOf(u)[2].doc, s) )
            => /\ IdsOfUser(u) \cap current_job_ids = {}
               /\ \A j \in jobs : j.id \in IdsOfUser(u) => j \in prior

----------------------------------------------------------------------------
\* Vocabulary of the dispatcher's properties.

Finished(d) == d.pc = "done"

ChannelWorks(d) == \A i \in DOMAIN d.sent : d.sent[i].ok

ChannelFailed(d) == \E i \in DOMAIN d.sent : ~d.sent[i].ok

Delivered(d) == {i \in DOMAIN d.sent : d.sent[i].ok}

\* C11: every dispatch that has run to its end over a working delivery channel
\* has delivered exactly one message, to the user the job belongs to, and the
\* message is not empty: it is the text the lookup returned (the schedule, or
\* the lookup's description of its failure), or the notice that the API token
\* is not configured.
C11_AlwaysDeliver ==
    \A d \in dispatches :
        (Finished(d) /\ ChannelWorks(d))
            => /\ Len(d.sent) = 1
               /\ d.sent[1].text # <<>>
               /\ \A i \in DOMAIN d.sent[1].text : d.sent[1].text[i] # ""
               /\ startswith(d.job, UserPrefix(d.sent[1].chat_id))
               /\ IF env.NATIONAL_RAIL_API_TOKEN
                  THEN d.message # <<>> /\ d.sent[1].text = d.message
                  ELSE d.sent[1].text =
                           <<"Error: National Rail API token is not configured for the scheduler.">>

\* A lookup that could not connect ended in the delivery of its failure text.
C11_Witness ==
    \E d \in dispatches :
        /\ Finished(d)
        /\ ChannelWorks(d)
        /\ d.sent = <<[chat_id |-> d.chat_id, ok |-> TRUE,
                       text |-> <<"Sorry, I couldn't connect to the train schedule service.">>]>>

\* C12: a dispatch in which bot.send_message failed made one delivery attempt
\* only, and no exception left the callback.
C12_DeliveryFailuresContained ==
    \A d \in dispatches :
        ChannelFailed(d) => Len(d.sent) = 1 /\ ~d.escaped

\* C13: with the Telegram bot token or the National Rail API token absent,
\* main() starts no reconciliation pass, installs no job and does not start
\* the scheduler.
C13_MissingCredentialsFatal ==
    (~env.TELEGRAM_BOT_TOKEN \/ ~env.NATIONAL_RAIL_API_TOKEN)
        => /\ pass_pc = "idle"
           /\ ~passes
           /\ jobs = {}
           /\ ~started

C15_NoCatchUp ==
    \A f \in fired :
        /\ f.run_time = f.at
        /\ [job |-> f.job, run_time |-> f.run_time] \notin missed

\* A job missed a moment while the process was down and has fired, after the
\* restart, at a later moment.
C15_Witness ==
    /\ restarts > 0
    /\ \E f \in fired, m \in missed :
           /\ f.job = m.job
           /\ f.run_time > m.run_time
           /\ f.at = f.run_time

\* C16: at most one reconciliation pass, startup or periodic, is in progress
\* in any state, and the startup pass has ended before the scheduler starts.
C16_PassesMutuallyExclusive ==
    /\ instances <= 1
    /\ (instances = 1) <=> (pass_pc # "idle")
    /\ (mainpc = "initial_load") => ~started

\* A periodic pass is in progress while a dispatch is in flight.
C16_Witness ==
    /\ started
    /\ instances = 1
    /\ pass_pc = "apply"
    /\ \E d \in dispatches : ~Finished(d)

\* The rows of the committed table, and the keys derivable from them.
RegistryRows == fetchall(db)

DerivableIds(rows) ==
    UNION { SlotIds(rows[i][1], s) : <<i, s>> \in
              { <<k, t>> \in (1..Len(rows)) \X SlotTypes :
                  /\ rows[k][2].ok
                  /\ BothStations(rows[k][2].doc)
                  /\ TimeSet(rows[k][2].doc, t) } }

\* C17: once the bot has stopped writing, the ids of the live notification
\* jobs come to equal the ids derivable from the committed registry and stay
\* equal.  Stated for a scheduler that has its bot token and for final
\* registries that hold at least one row, all of whose rows parse.
C17_EventualConvergence ==
    <>[]((/\ env.TELEGRAM_BOT_TOKEN
          /\ RegistryRows # <<>>
          /\ \A i \in 1..Len(RegistryRows) : RowParses(RegistryRows[i]))
            => JobIds(NotificationJobs(jobs)) = DerivableIds(RegistryRows))

\* C18: at most one storage operation is running on the shared connection
\* in any state.
C18_SharedHandleSerialized == Cardinality(in_conn) <= 1

\* The argument of the last command is exactly three alphabetic letters.
ValidArgument ==
    /\ last_command.args # <<>>
    /\ Len(last_command.args[1]) = 3
    /\ isalpha(last_command.args[1])

StationKey == IF last_command.name = "set_home" THEN "home_crs" ELSE "office_crs"

\* C19: after set_home or set_office with no argument, or with an argument
\* that is not exactly three alphabetic letters, every user's configuration is
\* what it was; after one with a valid argument the sender's configuration
\* differs from what it was in that station field only, which holds the
\* upper-cased argument, and the other users' are what they were.
C19_StationValidation ==
    (last_command # <<>>)
        => IF ~ValidArgument
           THEN context_user_data = before
           ELSE (~last_command.denied)
                    => context_user_data =
                           [before EXCEPT ![last_command.user_id] =
                               SetItem(before[last_command.user_id], StationKey,
                                       upper(last_command.args[1]))]

\* The text holds the pieces of `part` one after another.
Contains(text, part) ==
    \E i \in 1..(Len(text) - Len(part) + 1) : SubSeq(text, i, i + Len(part) - 1) = part

EmptyServiceList(reply) ==
    /\ reply.kind = "json"
    /\ "trainServices" \in DOMAIN reply.data
    /\ reply.data["trainServices"] = <<>>

Raises(reply, type) == reply.kind = "raise" /\ reply.exc.type = type

\* C20: whatever the schedule service answers and whether or not a token is
\* given, fetch_train_schedule raises nothing and returns a text that is not
\* empty; with a token, an empty service list gives the 'No direct services
\* found from <origin> to <destination>' text, a connection failure the
\* "couldn't connect" text, HTTP status 401 the authentication-failed text and
\* any other HTTP error status a text that names the status code.
C20_LookupNeverRaises ==
    (lookup # <<>>)
        => /\ ~lookup.result.raised
           /\ lookup.result.text # <<>>
           /\ \A i \in DOMAIN lookup.result.text : lookup.result.text[i] # ""
           /\ (lookup.api_token /\ EmptyServiceList(lookup.reply))
                 => (lookup.result.text =
                        <<"No direct services found from ", lookup.origin, " to ",
                          lookup.destination, " at this time.">>)
           /\ (lookup.api_token /\ Raises(lookup.reply, "ConnectionError"))
                 => (lookup.result.text =
                        <<"Sorry, I couldn't connect to the train schedule service.">>)
           /\ (lookup.api_token /\ Raises(lookup.reply, "HTTPError"))
                 => IF lookup.reply.exc.status_code = 401
                    THEN lookup.result.text =
                             <<"Authentication failed. Please check your API token.">>
                    ELSE Contains(lookup.result.text,
                                  Str(lookup.reply.exc.status_code))

\* The service answered HTTP 429 and the lookup returned the text naming it.
C20_Witness ==
    /\ lookup # <<>>
    /\ lookup.api_token
    /\ Raises(lookup.reply, "HTTPError")
    /\ lookup.reply.exc.status_code = 429
    /\ ~lookup.result.raised
    /\ Contains(lookup.result.text, <<"4", "2", "9">>)

----------------------------------------------------------------------------
\* Vocabulary of the report's properties.

\* The lines of a text: what stands between its "\n" pieces.
RECURSIVE SplitLines(_, _)
SplitLines(text, line) ==
    IF text = <<>> THEN <<line>>
    ELSE IF Head(text) = "\n" THEN <<line>> \o SplitLines(Tail(text), <<>>)
    ELSE SplitLines(Tail(text), Append(line, Head(text)))

ReturnedServices(reply) ==
    IF reply.kind = "json" /\ "trainServices" \in DOMAIN reply.data
    THEN reply.data["trainServices"] ELSE <<>>

IsCancelled(service) == "isCancelled" \in DOMAIN service /\ service["isCancelled"]

OnTimeSpellings ==
    { <<a, b, " ", c, d, e, f>> : a \in {"o", "O"}, b \in {"n", "N"}, c \in {"t", "T"},
                                  d \in {"i", "I"}, e \in {"m", "M"}, f \in {"e", "E"} }

IsDelayed(service) ==
    /\ "etd" \in DOMAIN service
    /\ service["etd"] # <<>>
    /\ service["etd"] \notin OnTimeSpellings

\* The status the report is to show for a service.
StatusShown(service) ==
    IF IsCancelled(service) THEN <<service["std"], " - CANCELLED">>
    ELSE IF IsDelayed(service) THEN <<service["std"], " (exp. ">> \o service["etd"] \o <<")">>
    ELSE <<service["std"], " -> ">> \o service["etd"]

\* C21: when the service returns services, the report is the header 'Trains
\* from <origin> to <destination>:', an empty line, and one line per service
\* in the order returned, and the line of a service begins with '<std> - CANCELLED'
\* if it is cancelled, else with '<std> (exp. <etd>)' if its estimated time
\* is not 'on time' in any letter case, else with '<std> -> <etd>'.
C21_ServiceLineStatus ==
    (lookup # <<>> /\ lookup.api_token /\ ReturnedServices(lookup.reply) # <<>>)
        => LET services == ReturnedServices(lookup.reply)
               lines == SplitLines(lookup.result.text, <<>>)
           IN /\ ~lookup.result.raised
              /\ Len(lines) = Len(services) + 2
              /\ lines[1] = <<"Trains from ", lookup.origin, " to ", lookup.destination, ":">>
              /\ lines[2] = <<>>
              /\ \A i \in 1..Len(services) :
                     startswith(lines[i + 2],
                                <<"- ">> \o StatusShown(services[i]) \o <<", Plat: ">>)

\* A report of two services, the first delayed and the second cancelled with
\* an estimated time that is not 'on time'.
C21_Witness ==
    /\ lookup # <<>>
    /\ lookup.api_token
    /\ Len(ReturnedServices(lookup.reply)) = 2
    /\ IsDelayed(ReturnedServices(lookup.reply)[1])
    /\ ~IsCancelled(ReturnedServices(lookup.reply)[1])
    /\ IsCancelled(ReturnedServices(lookup.reply)[2])
    /\ IsDelayed(ReturnedServices(lookup.reply)[2])
    /\ Contains(lookup.result.text, <<" - CANCELLED">>)
    /\ Contains(lookup.result.text, <<" (exp. ">>)

\* C22: the scheduler is started only after a pass has run to its end, with
\* resync_job installed on an interval of RESYNC_INTERVAL_MINUTES minutes and
\* no pass in progress; and whenever the scheduler is running, a further pass
\* begins later on.
C22_StartupThenPeriodic ==
    /\ [](started => /\ passes
                      /\ mainpc = "running"
                      /\ \E j \in jobs : /\ j.id = ResyncJob.id
                                         /\ j.func = "resync_all_user_schedules"
                                         /\ j.trigger = [type |-> "interval",
                                                         minutes |-> RESYNC_INTERVAL_MINUTES])
    /\ []((~started) => (mainpc = "initial_load" \/ instances = 0))
    /\ []((started /\ pass_pc = "idle") => <>(pass_pc = "scan"))

\* The scheduler is running and a periodic pass has begun.
C22_Witness ==
    /\ started
    /\ passes
    /\ pass_pc = "scan"
    /\ mainpc = "running"

\* C23 (Upsert wins): every id a pass derived from the scanned rows and added to
\* current_job_ids is the id of a live job when the pass ends, whatever was live
\* before it: the removal loop of that pass takes away no job the pass scheduled.
C23_UpsertWins ==
    PassEnded =>
        /\ current_job_ids \subseteq JobIds(jobs)
        /\ (JobIds(prior) \ JobIds(jobs)) \cap current_job_ids = {}

\* The case of C23: a pass that removed stale jobs of the last scanned user also
\* upserted jobs of that user which were live before it.
C23_Witness ==
    /\ PassEnded
    /\ \E u \in ScannedIds :
         /\ SlotIds(u, "to_slot") \subseteq current_job_ids
         /\ SlotIds(u, "to_slot") \subseteq JobIds(prior)
         /\ SlotIds(u, "from_slot") \subseteq JobIds(prior)
         /\ SlotIds(u, "from_slot") \cap JobIds(jobs) = {}

\* What a job of slot s carries when it is derived from doc: chat id, origin and
\* destination, and the minute of the day of the n-th notification.
DerivedArgs(user_id, doc, s) ==
    IF s = "to_slot"
    THEN <<user_id, doc["home_crs"], doc["office_crs"]>>
    ELSE <<user_id, doc["office_crs"], doc["home_crs"]>>

DerivedMinute(doc, s, n) ==
    LET t == doc[s]
        primary == ((t[1] % 12) + (IF t[3] = "PM" THEN 12 ELSE 0)) * 60 + t[2]
    IN IF n = 1 THEN primary ELSE (primary + 30) % 1440

\* The upsert: after a pass that scanned a user's record (both stations set,
\* every time well formed), each set slot has exactly one live job under each of
\* its two keys, carrying the time of day and the origin and destination of the
\* scanned record.
SetSlotsCarryNewValues ==
    PassEnded =>
        \A u \in ScannedIds :
            (RowParses(RowOf(u)) /\ BothStations(RowOf(u)[2].doc))
            => LET doc == RowOf(u)[2].doc
               IN \A s \in SlotTypes, n \in {1, 2} :
                      TimeSet(doc, s) =>
                          /\ \E j \in jobs : j.id = JobId(u, s, n)
                          /\ \A j \in jobs :
                                 j.id = JobId(u, s, n) =>
                                     /\ j.args = DerivedArgs(u, doc, s)
                                     /\ j.trigger.hour * 60 + j.trigger.minute
                                            = DerivedMinute(doc, s, n)

\* After such a pass no live job of the user carries an origin and destination
\* other than those of the scanned record.
NoJobCarriesOldStations ==
    PassEnded =>
        \A u \in ScannedIds :
            (RowParses(RowOf(u)) /\ BothStations(RowOf(u)[2].doc))
            => \A s \in SlotTypes, j \in jobs :
                   j.id \in SlotIds(u, s) => j.args = DerivedArgs(u, RowOf(u)[2].doc, s)

\* C24 (Changed configuration is propagated): after the pass that scans a
\* user's changed record both jobs of each set slot carry the new time of day and
\* the new origin and destination under the same keys, and no job of the user is
\* left carrying the old values.
C24_ChangedConfigurationPropagated ==
    /\ SetSlotsCarryNewValues
    /\ NoJobCarriesOldStations

\* C25 (Registry writes reach the reconciler): a scan that does not fail returns
\* the rows as the writes and deletes that have returned left them: every
\* written record is among the scanned rows and no deleted one is.
C25_WritesReachReconciler ==
    [][get_all_user_data => users' = fetchall(conn)]_vars

InFlight(d) == d.pc # "done"

RunTimeCame(job) ==
    /\ next_run_time[job.id] # Pending
    /\ next_run_time[job.id] <= now

\* C26 (Firing does not block): while a dispatch is waiting on the lookup or on
\* delivery, every other live job whose run time has come can fire at once, a
\* pass the scheduler has no instance of can start, and every job that fired
\* did so at its run time.
C26_FiringDoesNotBlock ==
    (started /\ \E d \in dispatches : InFlight(d)) =>
        /\ \A d \in dispatches, job \in Due(jobs) :
               (InFlight(d) /\ job.id # d.job /\ RunTimeCame(job))
                   => ENABLED (cron_job_fires(job) /\ run_time_reached(job))
        /\ (ResyncJob \in jobs /\ instances = 0) => ENABLED resync_job_fires
        /\ \A f \in fired : f.at = f.run_time

\* The case of C26: the dispatches of two jobs are in flight, one waiting on the
\* lookup and one on delivery, while a periodic pass is under way.
C26_Witness ==
    /\ started
    /\ pass_pc = "scan"
    /\ \E d1 \in dispatches, d2 \in dispatches :
         /\ d1.job # d2.job
         /\ d1.pc = "fetch"
         /\ d2.pc = "send"

\* C27 (Empty scan is a no-op): a pass whose scan returned no rows without
\* failing schedules nothing and adds, replaces and removes no job: the jobs
\* live after the pass are the jobs that were live before it, unchanged.
C27_EmptyScanNoOp ==
    [][(resync_all_user_schedules /\ ~scan_error /\ users = <<>>)
          => (current_job_ids' = {} /\ jobs' = jobs /\ next_run_time' = next_run_time)]_vars

\* The case of C27: a periodic pass scanned a registry from which every user
\* had been deleted while notification jobs were live.
C27_Witness ==
    /\ PassEnded
    /\ ~scan_error
    /\ users = <<>>
    /\ started
    /\ db = EmptyTable
    /\ conn = EmptyTable
    /\ nwrites > 0
    /\ NotificationJobs(jobs) # {}

\* C28 (The reconciler never cancels itself): from the moment main() has
\* installed resync_job and started the scheduler, resync_job is live with its
\* interval trigger in every state, and no pass removes or replaces it.
C28_ReconcilerNeverCancelsItself ==
    /\ started => ResyncJob \in jobs
    /\ (PassEnded /\ ResyncJob \in prior) =>
           /\ ResyncJob \in jobs
           /\ ResyncJob.id \notin current_job_ids

\* The case of C28: a periodic pass removed stale notification jobs and
\* scheduled others while resync_job was live.
C28_Witness ==
    /\ started
    /\ PassEnded
    /\ ResyncJob \in prior
    /\ current_job_ids # {}
    /\ \E j \in prior : j.id \notin JobIds(jobs)
====
